---- MODULE Spec2Model ----
(***************************************************************************)
(* Connection/session engine of the Universal Cloud Connector: the stdio   *)
(* <-> HTTP/SSE bridge of class UniversalConnector and main().             *)
(*                                                                         *)
(* Node runs every handler (stdin "data", EventSource onopen / "endpoint" /*)
(* onmessage / onerror, timer callbacks, promise continuations) to         *)
(* completion on one thread, so each handler is one atomic action.  A      *)
(* promise continuation that is already runnable (an async function that   *)
(* returned without suspending) runs in the microtask queue of the handler *)
(* that made it runnable, before any other event, and belongs to that      *)
(* handler's action.                                                      *)
(***************************************************************************)
EXTENDS Integers, Sequences, FiniteSets, TLC

\* ---------------------------------------------------------------- bounds
MaxRequests == 2     \* lines read from stdin in one run
MaxPush     == 2     \* message events delivered on the push channel in one run
MaxConns    == 2     \* calls of connectSSE in one run
MaxAnnounce == 1     \* distinct tokens a server may announce on one connection
maxAttempts == 2     \* polls of waitForSessionId (1000 in the source, scaled)
\* the bounds of SpecBackoff, which follows the supervisor to exhaustion
MaxRequestsB == 1    \* lines read from stdin
MaxConnsB    == 7    \* calls of connectSSE

\* bounds of SpecHandshake, which follows the session token (no pushed messages)
MaxRequestsH == 2    \* lines read from stdin
MaxConnsH    == 2    \* calls of connectSSE
MaxAnnounceH == 2    \* distinct tokens a server may announce on one connection

\* bounds of SpecStdin, which follows the framing of stdin
MaxWrites == 2       \* texts the client writes to the bridge's stdin
MaxConnsS == 2       \* calls of connectSSE

\* bounds of SpecCache, which starts with the dedup cache nearly full
MaxPushC == 3        \* message events delivered after the start

\* bounds of SpecUrl, which follows the URLs requested for each configured URL
MaxRequestsU == 1    \* lines read from stdin
MaxConnsU    == 2    \* calls of connectSSE

\* ------------------------------------------------------ program constants
MAX_RETRIES    == 5
RETRY_DELAY_MS == 1000
CACHE_LIMIT    == 1000

\* ------------------------------------------------------------ value sets
NoId     == 0                      \* request.id / data.id === undefined
Ids      == {1, 2}
Absent   == "absent"               \* a field that is undefined after JSON.parse
NoToken  == [conn |-> 0, ver |-> 0]    \* sessionId === null
Unparsable == [id |-> NoId, result |-> "garbage", error |-> "garbage"]

\* parsed bodies of SSE message events (JSON.parse(event.data))
Data(id, result, error) == [id |-> id, result |-> result, error |-> error]
Msgs ==
  { Data(1, "a", Absent), Data(1, "b", Absent), Data(2, "a", Absent),  \* results
    Data(1, Absent, "e"),                                              \* an error response
    Data(1, "a", "e"),                                                 \* result and error
    Data(NoId, Absent, Absent),                                        \* {"status":"connected"}
    Data(1, Absent, Absent),                                           \* a request or notification
    Data(NoId, "a", Absent),                                           \* a result without id
    Unparsable }

Methods == {"initialize", "other"}

\* strings are sequences of characters
Origin   == <<"h", "t", "t", "p", ":", "/", "/", "h">>      \* "http://h"
SSE      == <<"/", "s", "s", "e">>
API      == <<"/", "a">>
MESSAGES == <<"/", "m", "e", "s", "s", "a", "g", "e", "s">>

VARIABLES
  exitCode,            \* "running", or the status process.exit was called with
  isInitialized,       \* main: isInitialized (connector !== null)
  reqs,                \* the requests read so far: id, method, dispatch position
  pendingRequests,     \* Map id -> request (index into reqs), 0 = no entry
  processedMessageIds, \* Set<string> in insertion order
  sessionId,           \* string | null
  sessionIdReceived,   \* boolean
  eventSource,         \* "null", "connecting" (created, not open), "open", "closed"
  conn,                \* number of connectSSE calls so far; names the current attempt
  retryCount,
  shouldReconnect,
  timers,              \* pending setTimeout(() => this.connectSSE(), delay)
  delays,              \* delays passed to setTimeout since the last onopen
  stdoutLines,         \* lines written to stdout
  posts,               \* fetch(POST) calls issued
  nPush,               \* message events delivered so far
  lastLog,             \* the diagnostic the last message event left on stderr
  seen,                \* history: the responses the open connection has delivered
  wire,                \* characters written to the bridge's stdin, not yet read
  sent,                \* history: the texts the client wrote, one per line
  buffer,              \* main: buffer, the partial last line of the chunks read
  lines,               \* main: the lines the running "data" handler has yet to handle
  decoded,             \* history: what JSON.parse made of each non-blank line
  caught,              \* number of runs of the catch of the "data" handler
  stdinEnded,          \* stdin emitted "end"
  serverUrl,           \* the configured server_url, a string of characters
  opened               \* history: the URL the last EventSource was created with

vars == <<exitCode, isInitialized, reqs, pendingRequests, processedMessageIds,
          sessionId, sessionIdReceived, eventSource, conn, retryCount,
          shouldReconnect, timers, delays, stdoutLines, posts, nPush, lastLog, seen,
          wire, sent, buffer, lines, decoded, caught, stdinEnded, serverUrl, opened>>

connVars == <<eventSource, conn, retryCount, shouldReconnect, timers, delays>>
sessVars == <<sessionId, sessionIdReceived>>
pushVars == <<nPush, lastLog, seen>>
stdinVars == <<wire, sent, buffer, lines, decoded, caught, stdinEnded>>
urlVars == <<serverUrl, opened>>
bridgeVars == <<exitCode, isInitialized, reqs, pendingRequests, processedMessageIds,
                sessVars, connVars, stdoutLines, posts, pushVars, urlVars>>

Init ==
  /\ exitCode = "running"
  /\ isInitialized = FALSE
  /\ reqs = << >>
  /\ pendingRequests = [i \in Ids |-> 0]
  /\ processedMessageIds = << >>
  /\ sessionId = NoToken
  /\ sessionIdReceived = FALSE
  /\ eventSource = "null"
  /\ conn = 0
  /\ retryCount = 0
  /\ shouldReconnect = TRUE
  /\ timers = 0
  /\ delays = << >>
  /\ stdoutLines = << >>
  /\ posts = << >>
  /\ nPush = 0
  /\ lastLog = "none"
  /\ seen = {}
  /\ wire = << >>
  /\ sent = << >>
  /\ buffer = << >>
  /\ lines = << >>
  /\ decoded = << >>
  /\ caught = 0
  /\ stdinEnded = FALSE
  /\ serverUrl = Origin \o SSE
  /\ opened = << >>

\* ------------------------------------------------------------- helpers
Running == exitCode = "running"

\* RETRY_DELAY_MS * Math.pow(2, this.retryCount - 1)
Delay(n) == RETRY_DELAY_MS * (2 ^ (n - 1))

\* data.id !== undefined && (data.result !== undefined || data.error !== undefined)
IsResponse(m) ==
  /\ m # Unparsable
  /\ (m.result # Absent \/ m.error # Absent)
  /\ m.id # NoId

\* `${data.id}:${JSON.stringify(data)}`
MessageKey(m) == <<m.id, m>>

\* mutant: the duplicate check is missing
InCacheNever(k) == FALSE

InCache(k) == \E i \in 1..Len(processedMessageIds) : processedMessageIds[i] = k

\* a trim that cuts the cache back from its newest end
CacheAddDropsNewest(cache, k) ==
  LET added == Append(cache, k)
      n     == Len(added)
  IN  IF n > CACHE_LIMIT THEN SubSeq(added, 1, CACHE_LIMIT) ELSE added

\* processedMessageIds.add(key), then drop the oldest entries beyond the limit
CacheAdd(cache, k) ==
  LET added == Append(cache, k)
      n     == Len(added)
  IN  IF n > CACHE_LIMIT THEN SubSeq(added, n - CACHE_LIMIT + 1, n) ELSE added

\* mutant: every response with an id counts as matched
HasAnyId(id) == id # NoId

\* pendingRequests.has(id)
Has(id) == id # NoId /\ pendingRequests[id] # 0

\* a delete that leaves the entry in the table
MapDeleteKeeps(map, id) == map

\* pendingRequests.set(id, request) / pendingRequests.delete(id)
MapSet(map, id, r) == IF id = NoId THEN map ELSE [map EXCEPT ![id] = r]
MapDelete(map, id) == IF id = NoId THEN map ELSE [map EXCEPT ![id] = 0]

\* String.prototype.endsWith
EndsWith(s, t) == Len(t) <= Len(s) /\ SubSeq(s, Len(s) - Len(t) + 1, Len(s)) = t

\* a derivation that replaces the first "/sse" of the URL, not the final one
MessagesUrlFirstSse(url) ==
  LET at == { k \in 1..(Len(url) - Len(SSE) + 1) : SubSeq(url, k, k + Len(SSE) - 1) = SSE }
      i  == CHOOSE k \in at : \A j \in at : k <= j
  IN  IF EndsWith(url, SSE)
        THEN SubSeq(url, 1, i - 1) \o MESSAGES \o SubSeq(url, i + Len(SSE), Len(url))
        ELSE url \o MESSAGES

\* getMessagesUrl() without the query string: serverUrl.replace(/\/sse$/,
\* "/messages") when serverUrl.endsWith("/sse"), else `${serverUrl}/messages`
MessagesUrl(url) ==
  IF EndsWith(url, SSE)
    THEN SubSeq(url, 1, Len(url) - Len(SSE)) \o MESSAGES
    ELSE url \o MESSAGES

\* the fetch(messagesUrl, {method: "POST", ...}) call of sendRequest:
\* getMessagesUrl() puts the current sessionId in the query string
Post(r) == [req |-> r, token |-> sessionId, attempt |-> conn, es |-> eventSource,
            url |-> MessagesUrl(serverUrl)]

\* ------------------------------------------------- Connection Supervisor
\* connectSSE(): creating the EventSource succeeds (throws = FALSE) or the
\* constructor throws; tm is the number of timers still pending
ConnectSSE(throws, tm) ==
  /\ conn' = conn + 1
  /\ opened' = serverUrl
  /\ IF ~throws
       THEN /\ eventSource' = "connecting"
            /\ timers' = tm
            /\ UNCHANGED <<retryCount, shouldReconnect, delays>>
       ELSE /\ eventSource' = IF eventSource = "null" THEN "null" ELSE "closed"
            /\ IF shouldReconnect /\ retryCount < MAX_RETRIES
                 THEN /\ retryCount' = retryCount + 1
                      /\ timers' = tm + 1
                      /\ delays' = Append(delays, Delay(retryCount + 1))
                 ELSE UNCHANGED <<retryCount, delays>> /\ timers' = tm
            /\ UNCHANGED shouldReconnect

\* the setTimeout callback () => this.connectSSE()
TimerFire(throws) ==
  /\ Running
  /\ timers > 0
  /\ ConnectSSE(throws, timers - 1)
  /\ UNCHANGED <<exitCode, isInitialized, reqs, pendingRequests, processedMessageIds,
                 sessVars, stdoutLines, posts, pushVars>>
  /\ UNCHANGED stdinVars
  /\ UNCHANGED serverUrl

\* onopen without the reset of the session token
OnOpenKeepsSession ==
  /\ Running
  /\ eventSource = "connecting"
  /\ eventSource' = "open"
  /\ retryCount' = 0
  /\ processedMessageIds' = << >>
  /\ UNCHANGED sessVars
  /\ delays' = << >>
  /\ seen' = {}
  /\ UNCHANGED <<exitCode, isInitialized, reqs, pendingRequests, conn, shouldReconnect,
                 timers, stdoutLines, posts, nPush, lastLog>>
  /\ UNCHANGED stdinVars
  /\ UNCHANGED urlVars

\* onopen without the clearing of the dedup cache
OnOpenKeepsCache ==
  /\ Running
  /\ eventSource = "connecting"
  /\ eventSource' = "open"
  /\ retryCount' = 0
  /\ UNCHANGED processedMessageIds
  /\ sessionId' = NoToken
  /\ sessionIdReceived' = FALSE
  /\ delays' = << >>
  /\ seen' = {}
  /\ UNCHANGED <<exitCode, isInitialized, reqs, pendingRequests, conn, shouldReconnect,
                 timers, stdoutLines, posts, nPush, lastLog>>
  /\ UNCHANGED stdinVars
  /\ UNCHANGED urlVars

\* onopen without the reset of the retry counter
OnOpenKeepsRetry ==
  /\ Running
  /\ eventSource = "connecting"
  /\ eventSource' = "open"
  /\ UNCHANGED retryCount
  /\ processedMessageIds' = << >>
  /\ sessionId' = NoToken
  /\ sessionIdReceived' = FALSE
  /\ delays' = << >>
  /\ seen' = {}
  /\ UNCHANGED <<exitCode, isInitialized, reqs, pendingRequests, conn, shouldReconnect,
                 timers, stdoutLines, posts, nPush, lastLog>>
  /\ UNCHANGED stdinVars
  /\ UNCHANGED urlVars

\* eventSource.onopen
OnOpen ==
  /\ Running
  /\ eventSource = "connecting"
  /\ eventSource' = "open"
  /\ retryCount' = 0
  /\ processedMessageIds' = << >>
  /\ sessionId' = NoToken
  /\ sessionIdReceived' = FALSE
  /\ delays' = << >>
  /\ seen' = {}
  /\ UNCHANGED <<exitCode, isInitialized, reqs, pendingRequests, conn, shouldReconnect,
                 timers, stdoutLines, posts, nPush, lastLog>>
  /\ UNCHANGED stdinVars
  /\ UNCHANGED urlVars

\* mutant: a connection error also fails the requests in flight
OnErrorDropsPending ==
  /\ Running
  /\ eventSource \in {"connecting", "open"}
  /\ eventSource' = "null"
  /\ pendingRequests' = [i \in Ids |-> 0]
  /\ IF shouldReconnect /\ retryCount < MAX_RETRIES
       THEN /\ retryCount' = retryCount + 1
            /\ timers' = timers + 1
            /\ delays' = Append(delays, Delay(retryCount + 1))
            /\ UNCHANGED shouldReconnect
       ELSE /\ shouldReconnect' = FALSE
            /\ UNCHANGED <<retryCount, timers, delays>>
  /\ UNCHANGED <<exitCode, isInitialized, reqs, processedMessageIds,
                 sessVars, conn, stdoutLines, posts, pushVars>>
  /\ UNCHANGED stdinVars
  /\ UNCHANGED urlVars

\* onerror that answers every pending request with an error response
OnErrorReportsPending ==
  /\ Running
  /\ eventSource \in {"connecting", "open"}
  /\ eventSource' = "null"
  /\ IF shouldReconnect /\ retryCount < MAX_RETRIES
       THEN /\ retryCount' = retryCount + 1
            /\ timers' = timers + 1
            /\ delays' = Append(delays, Delay(retryCount + 1))
            /\ UNCHANGED shouldReconnect
       ELSE /\ shouldReconnect' = FALSE
            /\ UNCHANGED <<retryCount, timers, delays>>
  /\ stdoutLines' = IF \E id \in Ids : Has(id)
                      THEN Append(stdoutLines, [kind |-> "error", code |-> -32000,
                                                id |-> CHOOSE id \in Ids : Has(id)])
                      ELSE stdoutLines
  /\ UNCHANGED <<exitCode, isInitialized, reqs, pendingRequests, processedMessageIds,
                 sessVars, conn, posts, pushVars>>
  /\ UNCHANGED stdinVars
  /\ UNCHANGED urlVars

\* an onerror that schedules the reconnect and leaves the EventSource to its own
OnErrorLeavesOpen ==
  /\ Running
  /\ eventSource \in {"connecting", "open"}
  /\ UNCHANGED eventSource
  /\ IF shouldReconnect /\ retryCount < MAX_RETRIES
       THEN /\ retryCount' = retryCount + 1
            /\ timers' = timers + 1
            /\ delays' = Append(delays, Delay(retryCount + 1))
            /\ UNCHANGED shouldReconnect
       ELSE /\ shouldReconnect' = FALSE
            /\ UNCHANGED <<retryCount, timers, delays>>
  /\ UNCHANGED <<exitCode, isInitialized, reqs, pendingRequests, processedMessageIds,
                 sessVars, conn, stdoutLines, posts, pushVars>>
  /\ UNCHANGED stdinVars
  /\ UNCHANGED urlVars

\* eventSource.onerror
OnError ==
  /\ Running
  /\ eventSource \in {"connecting", "open"}
  /\ eventSource' = "null"
  /\ IF shouldReconnect /\ retryCount < MAX_RETRIES
       THEN /\ retryCount' = retryCount + 1
            /\ timers' = timers + 1
            /\ delays' = Append(delays, Delay(retryCount + 1))
            /\ UNCHANGED shouldReconnect
       ELSE /\ shouldReconnect' = FALSE
            /\ UNCHANGED <<retryCount, timers, delays>>
  /\ UNCHANGED <<exitCode, isInitialized, reqs, pendingRequests, processedMessageIds,
                 sessVars, conn, stdoutLines, posts, pushVars>>
  /\ UNCHANGED stdinVars
  /\ UNCHANGED urlVars

\* an endpoint listener that takes the handshake for done whatever the data
OnEndpointAlwaysReady(valid, ver) ==
  /\ Running
  /\ eventSource = "open"
  /\ sessionId' = IF valid THEN [conn |-> conn, ver |-> ver] ELSE sessionId
  /\ sessionIdReceived' = TRUE
  /\ UNCHANGED <<exitCode, isInitialized, reqs, pendingRequests, processedMessageIds,
                 connVars, stdoutLines, posts, pushVars>>
  /\ UNCHANGED stdinVars
  /\ UNCHANGED urlVars

\* an endpoint listener that takes whatever follows session_id= for the token
OnEndpointLooseMatch(valid, ver) ==
  /\ Running
  /\ eventSource = "open"
  /\ sessionId' = [conn |-> conn, ver |-> ver]
  /\ sessionIdReceived' = TRUE
  /\ UNCHANGED <<exitCode, isInitialized, reqs, pendingRequests, processedMessageIds,
                 connVars, stdoutLines, posts, pushVars>>
  /\ UNCHANGED stdinVars
  /\ UNCHANGED urlVars

\* ------------------------------------------------------ Session Handshake
\* the "endpoint" listener; valid = /session_id=([a-f0-9]{32})/ matches, and
\* the server's token is then the ver-th one it announces on this connection
OnEndpoint(valid, ver) ==
  /\ Running
  /\ eventSource = "open"
  /\ IF valid
       THEN /\ sessionId' = [conn |-> conn, ver |-> ver]
            /\ sessionIdReceived' = TRUE
       ELSE UNCHANGED sessVars
  /\ UNCHANGED <<exitCode, isInitialized, reqs, pendingRequests, processedMessageIds,
                 connVars, stdoutLines, posts, pushVars>>
  /\ UNCHANGED stdinVars
  /\ UNCHANGED urlVars

\* ---------------------------------------------------------- Bridge Facade
\* stdout.write(JSON.stringify(data) + "\n"), with the connection that delivered it
ResponseLine(m) == [kind |-> "response", msg |-> m, conn |-> conn]

\* stdout.write(JSON.stringify(errorResponse) + "\n") of main
ErrorLine(id) == [kind |-> "error", id |-> id, code |-> -32002]

\* an onmessage whose removal of the table entry is put off to a later turn
OnMessageDefersDelete(m) ==
  /\ Running
  /\ eventSource = "open"
  /\ nPush' = nPush + 1
  /\ seen' = IF IsResponse(m) THEN seen \cup {m} ELSE seen
  /\ IF IsResponse(m) /\ ~InCache(MessageKey(m))
       THEN /\ processedMessageIds' = CacheAdd(processedMessageIds, MessageKey(m))
            /\ IF Has(m.id)
                 THEN /\ stdoutLines' = Append(stdoutLines, ResponseLine(m))
                      /\ UNCHANGED pendingRequests
                      /\ lastLog' = "forwarded"
                 ELSE /\ lastLog' = "unmatched"
                      /\ UNCHANGED <<stdoutLines, pendingRequests>>
       ELSE /\ lastLog' = IF m = Unparsable THEN "parse error"
                          ELSE IF IsResponse(m) THEN "dedup" ELSE "non-RPC"
            /\ UNCHANGED <<processedMessageIds, stdoutLines, pendingRequests>>
  /\ UNCHANGED <<exitCode, isInitialized, reqs, sessVars, connVars, posts>>
  /\ UNCHANGED stdinVars
  /\ UNCHANGED urlVars

\* eventSource.onmessage
OnMessage(m) ==
  /\ Running
  /\ eventSource = "open"
  /\ nPush' = nPush + 1
  /\ seen' = IF IsResponse(m) THEN seen \cup {m} ELSE seen
  /\ IF IsResponse(m) /\ ~InCache(MessageKey(m))
       THEN /\ processedMessageIds' = CacheAdd(processedMessageIds, MessageKey(m))
            /\ IF Has(m.id)
                 THEN /\ stdoutLines' = Append(stdoutLines, ResponseLine(m))
                      /\ pendingRequests' = MapDelete(pendingRequests, m.id)
                      /\ lastLog' = "forwarded"
                 ELSE /\ lastLog' = "unmatched"
                      /\ UNCHANGED <<stdoutLines, pendingRequests>>
       ELSE /\ lastLog' = IF m = Unparsable THEN "parse error"
                          ELSE IF IsResponse(m) THEN "dedup" ELSE "non-RPC"
            /\ UNCHANGED <<processedMessageIds, stdoutLines, pendingRequests>>
  /\ UNCHANGED <<exitCode, isInitialized, reqs, sessVars, connVars, posts>>
  /\ UNCHANGED stdinVars
  /\ UNCHANGED urlVars

\* a request read from stdin: path is the branch of main's data handler that
\* took it, pc the position of its sendRequest call
Request(id, path, pc) ==
  [id |-> id, path |-> path, pc |-> pc, attempts |-> 0]

\* sendRequest up to its first suspension: waitForSessionId returns at once
\* when sessionIdReceived is set and the POST is issued, else it starts polling
SendRequestPc == IF sessionIdReceived THEN "posting" ELSE "waiting"

\* a handler that starts a connector for every initialize request
StdinLineReinit(id, method, cfgOk) ==
  /\ Running
  /\ LET r == Len(reqs) + 1 IN
     IF method = "initialize"
       THEN IF ~cfgOk
              THEN \* server_url or api_token missing
                   /\ stdoutLines' = Append(stdoutLines, ErrorLine(id))
                   /\ exitCode' = "1"
                   /\ reqs' = Append(reqs, Request(id, "config", "rejected"))
                   /\ UNCHANGED <<isInitialized, pendingRequests, connVars, posts, opened>>
              ELSE /\ isInitialized' = TRUE
                   /\ pendingRequests' = MapSet(pendingRequests, id, r)
                   \* connector.start()
                   /\ \E throws \in BOOLEAN : ConnectSSE(throws, timers)
                   \* connector.sendRequest(request): a new connector has no session
                   /\ reqs' = Append(reqs, Request(id, "init", "waiting"))
                   /\ UNCHANGED <<exitCode, stdoutLines, posts>>
       ELSE IF isInitialized
              THEN /\ pendingRequests' = MapSet(pendingRequests, id, r)
                   /\ reqs' = Append(reqs, Request(id, "forward", SendRequestPc))
                   /\ posts' = IF sessionIdReceived THEN Append(posts, Post(r)) ELSE posts
                   /\ UNCHANGED <<exitCode, isInitialized, stdoutLines, connVars, opened>>
              ELSE /\ stdoutLines' = Append(stdoutLines, ErrorLine(id))
                   /\ reqs' = Append(reqs, Request(id, "reject", "rejected"))
                   /\ UNCHANGED <<exitCode, isInitialized, pendingRequests, connVars, posts, opened>>
  /\ UNCHANGED <<processedMessageIds, sessVars, pushVars, serverUrl>>

\* main's stdin "data" handler, for one complete line that parses
StdinLine(id, method, cfgOk) ==
  /\ Running
  /\ LET r == Len(reqs) + 1 IN
     IF ~isInitialized /\ method = "initialize"
       THEN IF ~cfgOk
              THEN \* server_url or api_token missing
                   /\ stdoutLines' = Append(stdoutLines, ErrorLine(id))
                   /\ exitCode' = "1"
                   /\ reqs' = Append(reqs, Request(id, "config", "rejected"))
                   /\ UNCHANGED <<isInitialized, pendingRequests, connVars, posts, opened>>
              ELSE /\ isInitialized' = TRUE
                   /\ pendingRequests' = MapSet(pendingRequests, id, r)
                   \* connector.start()
                   /\ \E throws \in BOOLEAN : ConnectSSE(throws, timers)
                   \* connector.sendRequest(request): a new connector has no session
                   /\ reqs' = Append(reqs, Request(id, "init", "waiting"))
                   /\ UNCHANGED <<exitCode, stdoutLines, posts>>
       ELSE IF isInitialized
              THEN /\ pendingRequests' = MapSet(pendingRequests, id, r)
                   /\ reqs' = Append(reqs, Request(id, "forward", SendRequestPc))
                   /\ posts' = IF sessionIdReceived THEN Append(posts, Post(r)) ELSE posts
                   /\ UNCHANGED <<exitCode, isInitialized, stdoutLines, connVars, opened>>
              ELSE /\ stdoutLines' = Append(stdoutLines, ErrorLine(id))
                   /\ reqs' = Append(reqs, Request(id, "reject", "rejected"))
                   /\ UNCHANGED <<exitCode, isInitialized, pendingRequests, connVars, posts, opened>>
  /\ UNCHANGED <<processedMessageIds, sessVars, pushVars, serverUrl>>

\* ---------------------------------------------------------------- stdin framing

NL == "\n"

\* a JSON object with the members main reads: id, method and params, whose
\* initializationOptions hold the configuration ("config") or not ("noconfig")
JValue(id, method, params) == [id |-> id, method |-> method, params |-> params]

Malformed == JValue(NoId, "SyntaxError", Absent)   \* JSON.parse throws
JNull == JValue(NoId, "null", Absent)              \* the JSON value null

Parsable ==
  { JValue(id, method, params) :
      id \in Ids \cup {NoId}, method \in Methods, params \in {"config", "noconfig", Absent} }
  \cup {JNull}

\* JSON.stringify: one character per member, no line feed inside
Stringify(v) ==
  IF v = JNull
    THEN <<"n">>
    ELSE <<"{">>
         \o (IF v.id = NoId THEN << >> ELSE IF v.id = 1 THEN <<"1">> ELSE <<"2">>)
         \o (IF v.method = "initialize" THEN <<"i">> ELSE <<"o">>)
         \o (IF v.params = Absent THEN << >> ELSE IF v.params = "config" THEN <<"c">> ELSE <<"x">>)
         \o <<"}">>

\* String.prototype.trim
RECURSIVE Trim(_)
Trim(s) ==
  IF s = << >> THEN s
  ELSE IF Head(s) = " " THEN Trim(Tail(s))
  ELSE IF s[Len(s)] = " " THEN Trim(SubSeq(s, 1, Len(s) - 1))
  ELSE s

\* JSON.parse: white space around the value is skipped
JSONParse(s) ==
  IF \E v \in Parsable : Stringify(v) = Trim(s)
    THEN CHOOSE v \in Parsable : Stringify(v) = Trim(s)
    ELSE Malformed

\* String.prototype.split("\n")
RECURSIVE Split(_)
Split(s) ==
  IF \A i \in 1..Len(s) : s[i] # NL
    THEN <<s>>
    ELSE LET i == CHOOSE k \in 1..Len(s) : s[k] = NL /\ \A j \in 1..(k - 1) : s[j] # NL
         IN  <<SubSeq(s, 1, i - 1)>> \o Split(SubSeq(s, i + 1, Len(s)))

\* what the client writes: values main understands, the value null, a request
\* cut short and a line of white space
Values ==
  { JValue(1, "initialize", "config"), JValue(1, "initialize", "noconfig"),
    JValue(1, "initialize", Absent), JValue(2, "other", Absent),
    JValue(NoId, "other", Absent), JNull }

Texts == { Stringify(v) : v \in Values } \cup { <<"{", "o">>, <<" ">> }

\* the client writes one text and its line feed into the pipe
ClientWrite(t) ==
  /\ Running
  /\ ~stdinEnded
  /\ wire' = wire \o t \o <<NL>>
  /\ sent' = Append(sent, t)
  /\ UNCHANGED <<buffer, lines, decoded, caught, stdinEnded>>
  /\ UNCHANGED bridgeVars

\* a "data" handler that forgets the partial last line of the chunk
StdinDataDropsPartial(n) ==
  /\ Running
  /\ lines = << >>
  /\ n \in 1..Len(wire)
  /\ wire' = SubSeq(wire, n + 1, Len(wire))
  /\ LET segments == Split(buffer \o SubSeq(wire, 1, n)) IN
       /\ lines' = SubSeq(segments, 1, Len(segments) - 1)
       /\ buffer' = << >>
  /\ UNCHANGED <<sent, decoded, caught, stdinEnded>>
  /\ UNCHANGED bridgeVars

\* stdin "data" with the first n characters of the pipe as chunk, up to the
\* loop over the complete lines
StdinData(n) ==
  /\ Running
  /\ lines = << >>
  /\ n \in 1..Len(wire)
  /\ wire' = SubSeq(wire, n + 1, Len(wire))
  /\ LET segments == Split(buffer \o SubSeq(wire, 1, n)) IN
       /\ lines' = SubSeq(segments, 1, Len(segments) - 1)
       /\ buffer' = segments[Len(segments)]
  /\ UNCHANGED <<sent, decoded, caught, stdinEnded>>
  /\ UNCHANGED bridgeVars

\* a loop that gives up the rest of the chunk after a line that does not parse
LineStepPoisoned ==
  /\ Running
  /\ lines # << >>
  /\ lines' = IF JSONParse(Head(lines)) = Malformed THEN << >> ELSE Tail(lines)
  /\ UNCHANGED <<wire, sent, buffer, stdinEnded>>
  /\ LET line == Head(lines)
         v    == JSONParse(line)
     IN  IF Trim(line) = << >>
           THEN UNCHANGED <<decoded, caught>> /\ UNCHANGED bridgeVars
           ELSE /\ decoded' = Append(decoded, v)
                /\ IF \/ v = Malformed
                      \/ v = JNull
                      \/ (~isInitialized /\ v.method = "initialize" /\ v.params = Absent)
                     THEN caught' = caught + 1 /\ UNCHANGED bridgeVars
                     ELSE /\ UNCHANGED caught
                          /\ StdinLine(v.id, v.method, v.params = "config")

\* one round of the loop over the lines of the chunk; a TypeError thrown by
\* request.method on null or by params.initializationOptions on a missing
\* params is caught like a SyntaxError of JSON.parse
LineStep ==
  /\ Running
  /\ lines # << >>
  /\ lines' = Tail(lines)
  /\ UNCHANGED <<wire, sent, buffer, stdinEnded>>
  /\ LET line == Head(lines)
         v    == JSONParse(line)
     IN  IF Trim(line) = << >>
           THEN UNCHANGED <<decoded, caught>> /\ UNCHANGED bridgeVars
           ELSE /\ decoded' = Append(decoded, v)
                /\ IF \/ v = Malformed
                      \/ v = JNull
                      \/ (~isInitialized /\ v.method = "initialize" /\ v.params = Absent)
                     THEN caught' = caught + 1 /\ UNCHANGED bridgeVars
                     ELSE /\ UNCHANGED caught
                          /\ StdinLine(v.id, v.method, v.params = "config")

\* stdin "end": the client closed the pipe and all of it was read
StdinEnd ==
  /\ Running
  /\ ~stdinEnded
  /\ wire = << >>
  /\ lines = << >>
  /\ stdinEnded' = TRUE
  /\ UNCHANGED <<wire, sent, buffer, lines, decoded, caught>>
  /\ UNCHANGED bridgeVars

\* stdin "error"
StdinError ==
  /\ Running
  /\ ~stdinEnded
  /\ lines = << >>
  /\ exitCode' = "1"
  /\ UNCHANGED <<isInitialized, reqs, pendingRequests, processedMessageIds,
                 sessVars, connVars, stdoutLines, posts, pushVars>>
  /\ UNCHANGED stdinVars
  /\ UNCHANGED urlVars

\* waitForSessionId without the count of its polls
PollNoCount(r) ==
  /\ Running
  /\ r \in 1..Len(reqs)
  /\ reqs[r].pc = "waiting"
  /\ LET a == reqs[r].attempts + 1 IN
     IF sessionIdReceived
       THEN /\ reqs' = [reqs EXCEPT ![r].pc = "posting", ![r].attempts = 0]
            /\ posts' = Append(posts, Post(r))
            /\ UNCHANGED pendingRequests
       ELSE IF a < maxAttempts
         THEN /\ reqs' = [reqs EXCEPT ![r].attempts = reqs[r].attempts]
              /\ UNCHANGED <<posts, pendingRequests>>
         ELSE /\ reqs' = [reqs EXCEPT ![r].pc = "timedout", ![r].attempts = 0]
              /\ pendingRequests' = IF reqs[r].path = "forward"
                                      THEN MapDelete(pendingRequests, reqs[r].id)
                                      ELSE pendingRequests
              /\ UNCHANGED posts
  /\ UNCHANGED <<exitCode, isInitialized, processedMessageIds, sessVars, connVars,
                 stdoutLines, pushVars>>
  /\ UNCHANGED stdinVars
  /\ UNCHANGED urlVars

\* waitForSessionId that tests the count of its polls before the flag
PollTimeoutFirst(r) ==
  /\ Running
  /\ r \in 1..Len(reqs)
  /\ reqs[r].pc = "waiting"
  /\ LET a == reqs[r].attempts + 1 IN
     IF sessionIdReceived /\ a < maxAttempts
       THEN /\ reqs' = [reqs EXCEPT ![r].pc = "posting", ![r].attempts = 0]
            /\ posts' = Append(posts, Post(r))
            /\ UNCHANGED pendingRequests
       ELSE IF a < maxAttempts
         THEN /\ reqs' = [reqs EXCEPT ![r].attempts = a]
              /\ UNCHANGED <<posts, pendingRequests>>
         ELSE /\ reqs' = [reqs EXCEPT ![r].pc = "timedout", ![r].attempts = 0]
              /\ pendingRequests' = IF reqs[r].path = "forward"
                                      THEN MapDelete(pendingRequests, reqs[r].id)
                                      ELSE pendingRequests
              /\ UNCHANGED posts
  /\ UNCHANGED <<exitCode, isInitialized, processedMessageIds, sessVars, connVars,
                 stdoutLines, pushVars>>
  /\ UNCHANGED stdinVars
  /\ UNCHANGED urlVars

\* one wake-up of the polling loop of waitForSessionId for request r, and what
\* follows it: the POST when the session is there, the throw after maxAttempts
\* polls and the .catch handler main attached to sendRequest
Poll(r) ==
  /\ Running
  /\ r \in 1..Len(reqs)
  /\ reqs[r].pc = "waiting"
  /\ LET a == reqs[r].attempts + 1 IN
     IF sessionIdReceived
       THEN /\ reqs' = [reqs EXCEPT ![r].pc = "posting", ![r].attempts = 0]
            /\ posts' = Append(posts, Post(r))
            /\ UNCHANGED pendingRequests
       ELSE IF a < maxAttempts
         THEN /\ reqs' = [reqs EXCEPT ![r].attempts = a]
              /\ UNCHANGED <<posts, pendingRequests>>
         ELSE /\ reqs' = [reqs EXCEPT ![r].pc = "timedout", ![r].attempts = 0]
              /\ pendingRequests' = IF reqs[r].path = "forward"
                                      THEN MapDelete(pendingRequests, reqs[r].id)
                                      ELSE pendingRequests
              /\ UNCHANGED posts
  /\ UNCHANGED <<exitCode, isInitialized, processedMessageIds, sessVars, connVars,
                 stdoutLines, pushVars>>
  /\ UNCHANGED stdinVars
  /\ UNCHANGED urlVars

\* mutant: a failed POST leaves the cleanup to the caller, whose .catch never runs
PostDoneKeepsEntry(r, outcome) ==
  /\ Running
  /\ r \in 1..Len(reqs)
  /\ reqs[r].pc = "posting"
  /\ reqs' = [reqs EXCEPT ![r].pc = IF outcome = "ok" THEN "sent" ELSE "failed"]
  /\ UNCHANGED <<exitCode, isInitialized, pendingRequests, processedMessageIds, sessVars,
                 connVars, stdoutLines, posts, pushVars>>
  /\ UNCHANGED stdinVars
  /\ UNCHANGED urlVars

\* a sendRequest that returns only once the reply to its request has come
PostDoneAwaitsReply(r, outcome) ==
  /\ Running
  /\ r \in 1..Len(reqs)
  /\ reqs[r].pc = "posting"
  /\ ~Has(reqs[r].id)
  /\ IF outcome = "ok"
       THEN /\ reqs' = [reqs EXCEPT ![r].pc = "sent"]
            /\ UNCHANGED pendingRequests
       ELSE /\ reqs' = [reqs EXCEPT ![r].pc = "failed"]
            /\ pendingRequests' = IF Has(reqs[r].id)
                                    THEN MapDelete(pendingRequests, reqs[r].id)
                                    ELSE pendingRequests
  /\ UNCHANGED <<exitCode, isInitialized, processedMessageIds, sessVars, connVars,
                 stdoutLines, posts, pushVars>>
  /\ UNCHANGED stdinVars
  /\ UNCHANGED urlVars

\* a sendRequest that issues the POST again when it failed
PostDoneRetries(r, outcome) ==
  /\ Running
  /\ r \in 1..Len(reqs)
  /\ reqs[r].pc = "posting"
  /\ IF outcome = "ok"
       THEN /\ reqs' = [reqs EXCEPT ![r].pc = "sent"]
            /\ UNCHANGED posts
       ELSE /\ posts' = Append(posts, Post(r))
            /\ UNCHANGED reqs
  /\ UNCHANGED <<exitCode, isInitialized, pendingRequests, processedMessageIds, sessVars,
                 connVars, stdoutLines, pushVars>>
  /\ UNCHANGED stdinVars
  /\ UNCHANGED urlVars

\* the fetch of request r settles: a 2xx status ("ok"), another status
\* ("status") or a rejected promise ("throw"); both failures log and free the slot
PostDone(r, outcome) ==
  /\ Running
  /\ r \in 1..Len(reqs)
  /\ reqs[r].pc = "posting"
  /\ IF outcome = "ok"
       THEN /\ reqs' = [reqs EXCEPT ![r].pc = "sent"]
            /\ UNCHANGED pendingRequests
       ELSE /\ reqs' = [reqs EXCEPT ![r].pc = "failed"]
            /\ pendingRequests' = IF Has(reqs[r].id)
                                    THEN MapDelete(pendingRequests, reqs[r].id)
                                    ELSE pendingRequests
  /\ UNCHANGED <<exitCode, isInitialized, processedMessageIds, sessVars, connVars,
                 stdoutLines, posts, pushVars>>
  /\ UNCHANGED stdinVars
  /\ UNCHANGED urlVars

Next ==
  \/ \E id \in Ids \cup {NoId}, method \in Methods, cfgOk \in BOOLEAN :
        Len(reqs) < MaxRequests /\ StdinLine(id, method, cfgOk) /\ UNCHANGED stdinVars
  \/ \E r \in 1..MaxRequests : Poll(r)
  \/ \E r \in 1..MaxRequests, outcome \in {"ok", "status", "throw"} : PostDone(r, outcome)
  \/ \E throws \in BOOLEAN : conn < MaxConns /\ TimerFire(throws)
  \/ OnOpen
  \/ \E valid \in BOOLEAN, ver \in 1..MaxAnnounce : OnEndpoint(valid, ver)
  \/ \E m \in Msgs : nPush < MaxPush /\ OnMessage(m)
  \/ OnError

Spec == Init /\ [][Next]_vars

\* the supervisor followed until the retries are exhausted: only the initialize
\* request is read and the server pushes no message events
NextBackoff ==
  \/ \E id \in Ids \cup {NoId}, cfgOk \in BOOLEAN :
        Len(reqs) < MaxRequestsB /\ StdinLine(id, "initialize", cfgOk) /\ UNCHANGED stdinVars
  \/ \E r \in 1..MaxRequestsB : Poll(r)
  \/ \E r \in 1..MaxRequestsB, outcome \in {"ok", "status", "throw"} : PostDone(r, outcome)
  \/ \E throws \in BOOLEAN : conn < MaxConnsB /\ TimerFire(throws)
  \/ OnOpen
  \/ \E valid \in BOOLEAN, ver \in 1..MaxAnnounce : OnEndpoint(valid, ver)
  \/ OnError

SpecBackoff == Init /\ [][NextBackoff]_vars

\* the timer of each suspended sendRequest fires: setTimeout(resolve, 10) of
\* waitForSessionId is always followed by its callback
SpecBackoffFair == SpecBackoff /\ \A r \in 1..MaxRequestsB : WF_vars(Poll(r))

\* a suspended sendRequest whose next poll will find the token. Its 10 ms timer
\* was set before any reconnect timer that is set from now on, and those wait
\* 1000 ms or more, so it fires before them
PollDue == \E r \in 1..Len(reqs) : reqs[r].pc = "waiting" /\ sessionIdReceived

\* the bridge without pushed messages, with a server that may announce several
\* tokens on one connection, and with timers fired in the order they fall due
NextHandshake ==
  \/ \E id \in Ids \cup {NoId}, method \in Methods, cfgOk \in BOOLEAN :
        Len(reqs) < MaxRequestsH /\ StdinLine(id, method, cfgOk) /\ UNCHANGED stdinVars
  \/ \E r \in 1..MaxRequestsH : Poll(r)
  \/ \E r \in 1..MaxRequestsH, outcome \in {"ok", "status", "throw"} : PostDone(r, outcome)
  \/ \E throws \in BOOLEAN : conn < MaxConnsH /\ ~PollDue /\ TimerFire(throws)
  \/ OnOpen
  \/ \E valid \in BOOLEAN, ver \in 1..MaxAnnounceH : OnEndpoint(valid, ver)
  \/ OnError

SpecHandshake == Init /\ [][NextHandshake]_vars

\* the bridge fed through its stdin pipe, without pushed messages; the loop of
\* the "data" handler runs to its end before any other handler starts
NextStdin ==
  \/ \E t \in Texts : Len(sent) < MaxWrites /\ ClientWrite(t)
  \/ \E n \in 1..Len(wire) : StdinData(n)
  \/ LineStep
  \/ StdinEnd
  \/ StdinError
  \/ \E r \in 1..MaxWrites : lines = << >> /\ Poll(r)
  \/ \E r \in 1..MaxWrites, outcome \in {"ok", "status", "throw"} :
        lines = << >> /\ PostDone(r, outcome)
  \/ \E throws \in BOOLEAN : lines = << >> /\ conn < MaxConnsS /\ TimerFire(throws)
  \/ lines = << >> /\ OnOpen
  \/ \E valid \in BOOLEAN : lines = << >> /\ OnEndpoint(valid, 1)
  \/ lines = << >> /\ OnError

SpecStdin == Init /\ [][NextStdin]_vars

\* the i-th of the responses a server pushed right after the connection opened,
\* none of them for a pending request
Filler(i) == Data(1, ToString(i), Absent)

MsgsCache ==
  { Filler(1), Filler(2), Filler(CACHE_LIMIT + 1), Filler(CACHE_LIMIT + 2),
    Data(2, "a", Absent), Data(NoId, Absent, Absent) }

\* initialize (id 2) was read, the connection is open and has delivered n
\* distinct responses for id 1, which are all in the cache: it is full or
\* one or two short of it
InitCache ==
  \E n \in (CACHE_LIMIT - 2)..CACHE_LIMIT :
    /\ exitCode = "running"
    /\ isInitialized = TRUE
    /\ reqs = <<Request(2, "init", "waiting")>>
    /\ pendingRequests = [i \in Ids |-> IF i = 2 THEN 1 ELSE 0]
    /\ processedMessageIds = [i \in 1..n |-> MessageKey(Filler(i))]
    /\ sessionId = NoToken
    /\ sessionIdReceived = FALSE
    /\ eventSource = "open"
    /\ conn = 1
    /\ retryCount = 0
    /\ shouldReconnect = TRUE
    /\ timers = 0
    /\ delays = << >>
    /\ stdoutLines = << >>
    /\ posts = << >>
    /\ nPush = n
    /\ lastLog = "unmatched"
    /\ seen = { Filler(i) : i \in 1..n }
    /\ wire = << >>
    /\ sent = << >>
    /\ buffer = << >>
    /\ lines = << >>
    /\ decoded = << >>
    /\ caught = 0
    /\ stdinEnded = FALSE
    /\ serverUrl = Origin \o SSE
    /\ opened = serverUrl

NextCache == \E m \in MsgsCache : nPush < CACHE_LIMIT + MaxPushC /\ OnMessage(m)

SpecCache == InitCache /\ [][NextCache]_vars

\* stop(): a call of the public method by the owner of the connector; the
\* timers set by onerror and by the catch of connectSSE are not cleared
Stop ==
  /\ Running
  /\ isInitialized
  /\ shouldReconnect' = FALSE
  /\ eventSource' = "null"
  /\ UNCHANGED <<conn, retryCount, timers, delays>>
  /\ UNCHANGED <<exitCode, isInitialized, reqs, pendingRequests, processedMessageIds,
                 sessVars, stdoutLines, posts, pushVars>>
  /\ UNCHANGED stdinVars
  /\ UNCHANGED urlVars

\* the supervisor of SpecBackoff with an owner that may call stop() at any time
NextStop ==
  \/ NextBackoff
  \/ Stop

SpecStop == Init /\ [][NextStop]_vars

\* the configured URLs: with and without the suffix /sse, with /sse inside
\* the path, twice, followed by a slash, in upper case or as the end of a
\* longer segment
Urls ==
  { Origin \o path :
      path \in { << >>, SSE, API, API \o SSE, SSE \o SSE, SSE \o API, SSE \o <<"/">>,
                 <<"/", "S", "S", "E">>, <<"/", "x", "s", "s", "e">>, SSE \o <<"e">> } }

InitUrl ==
  /\ exitCode = "running"
  /\ isInitialized = FALSE
  /\ reqs = << >>
  /\ pendingRequests = [i \in Ids |-> 0]
  /\ processedMessageIds = << >>
  /\ sessionId = NoToken
  /\ sessionIdReceived = FALSE
  /\ eventSource = "null"
  /\ conn = 0
  /\ retryCount = 0
  /\ shouldReconnect = TRUE
  /\ timers = 0
  /\ delays = << >>
  /\ stdoutLines = << >>
  /\ posts = << >>
  /\ nPush = 0
  /\ lastLog = "none"
  /\ seen = {}
  /\ wire = << >>
  /\ sent = << >>
  /\ buffer = << >>
  /\ lines = << >>
  /\ decoded = << >>
  /\ caught = 0
  /\ stdinEnded = FALSE
  /\ serverUrl \in Urls
  /\ opened = << >>

\* the bridge started with any of the configured URLs, without pushed messages
NextUrl ==
  \/ \E id \in Ids \cup {NoId}, cfgOk \in BOOLEAN :
        Len(reqs) < MaxRequestsU /\ StdinLine(id, "initialize", cfgOk) /\ UNCHANGED stdinVars
  \/ \E r \in 1..MaxRequestsU : Poll(r)
  \/ \E r \in 1..MaxRequestsU, outcome \in {"ok", "status", "throw"} : PostDone(r, outcome)
  \/ \E throws \in BOOLEAN : conn < MaxConnsU /\ TimerFire(throws)
  \/ OnOpen
  \/ \E valid \in BOOLEAN, ver \in 1..MaxAnnounce : OnEndpoint(valid, ver)
  \/ OnError

SpecUrl == InitUrl /\ [][NextUrl]_vars

\* ================================================================ claims
Live == eventSource \in {"connecting", "open"}
Waiting(r) == r <= Len(reqs) /\ reqs[r].pc = "waiting"
Tracked(r) == reqs[r].id # NoId /\ reqs[r].path \in {"init", "forward"}
LastOut(out) == out[Len(out)]
Forwards(out) == Len(out) = Len(stdoutLines) + 1 /\ LastOut(out).kind = "response"
\* copies of response m written to stdout while connection c was current
Copies(out, m, c) ==
  Cardinality({i \in 1..Len(out) : out[i] = [kind |-> "response", msg |-> m, conn |-> c]})

\* C1: a POST is issued only while the handshake is Ready for the current
\* connection attempt: the push connection is open and has announced its token
C1_HandshakeGating ==
  [][posts' # posts =>
       /\ eventSource = "open"
       /\ sessionIdReceived
       /\ sessionId.conn = conn]_vars

\* C2: no POST carries the token of a connection that is not the current, live
\* one when the POST is issued
C2_NoStaleToken ==
  \A i \in 1..Len(posts) :
    /\ posts[i].token.conn = posts[i].attempt
    /\ posts[i].es = "open"

\* C3: a response fingerprint delivered on one connection is written to stdout
\* at most once, and exactly once when its first delivery finds its id pending;
\* a re-delivery writes nothing
C3_AtMostOneForward ==
  [][\A m \in Msgs : (OnMessage(m) /\ IsResponse(m)) =>
       /\ Copies(stdoutLines', m, conn) <= 1
       /\ (~InCache(MessageKey(m)) /\ pendingRequests[m.id] # 0)
             => Copies(stdoutLines', m, conn) = 1
       /\ Copies(stdoutLines, m, conn) = 1 => stdoutLines' = stdoutLines]_vars

C3_Witness ==
  /\ lastLog = "dedup"
  /\ Len(processedMessageIds) = 1
  /\ Copies(stdoutLines, processedMessageIds[1][2], conn) = 1

\* C4: a response is written to stdout only if its id is in the pending table
\* when it is delivered
C4_NoForwardWithoutMatch ==
  [][Forwards(stdoutLines') => pendingRequests[LastOut(stdoutLines').msg.id] # 0]_vars

C4_Witness ==
  /\ lastLog = "unmatched"
  /\ \E r \in 1..Len(reqs) : reqs[r].pc = "sent"
  /\ \A i \in 1..Len(stdoutLines) : stdoutLines[i].kind # "response"

\* C5: every response line on stdout has an id and exactly one of result / error
C5_OnlyWellFormedForwarded ==
  \A i \in 1..Len(stdoutLines) :
    stdoutLines[i].kind = "response" =>
      LET m == stdoutLines[i].msg IN
        /\ m # Unparsable
        /\ m.id # NoId
        /\ (m.result # Absent) # (m.error # Absent)

C7_DispatchFailureFreesSlot ==
  [][\A r \in 1..Len(reqs) :
        (reqs[r].pc = "posting" /\ reqs'[r].pc = "failed" /\ reqs[r].id # NoId) =>
           /\ pendingRequests'[reqs[r].id] = 0
           /\ exitCode' = "running"]_vars

C7_Witness ==
  \E r \in 1..Len(reqs) :
    /\ Tracked(r)
    /\ reqs[r].pc = "failed"
    /\ pendingRequests[reqs[r].id] = 0
    /\ exitCode = "running"

\* C8: a request whose wait for the handshake timed out has no table entry and
\* no POST
C8_HandshakeTimeoutClean ==
  \A r \in 1..Len(reqs) :
    reqs[r].pc = "timedout" =>
      /\ reqs[r].id # NoId => pendingRequests[reqs[r].id] # r
      /\ \A i \in 1..Len(posts) : posts[i].req # r

\* C9: the bridge is never alive with the retries given up, nor with no push
\* connection and no reconnect scheduled
C9_GivenUpIsFatal ==
  (isInitialized /\ exitCode = "running") => (shouldReconnect /\ (Live \/ timers > 0))

\* C10: the retry counter stays in 0..5, the delays scheduled since the last
\* open connection are 1s, 2s, 4s, 8s, 16s in this order, and once nothing is
\* connected or scheduled the supervisor has given up
C10_BackoffBound ==
  /\ retryCount \in 0..MAX_RETRIES
  /\ Len(delays) <= MAX_RETRIES
  /\ \A i \in 1..Len(delays) :
       /\ delays[i] = RETRY_DELAY_MS * (2 ^ (i - 1))
       /\ delays[i] <= 16000
       /\ i > 1 => delays[i - 1] <= delays[i]
  /\ (isInitialized /\ ~Live /\ timers = 0) => ~shouldReconnect

\* C11: whenever a connection attempt is under way (connectSSE has created the
\* event source and it has not opened yet) the session token is unset and the
\* dedup cache is empty
C11_ResetOnConnect ==
  eventSource = "connecting" =>
    /\ sessionId = NoToken
    /\ ~sessionIdReceived
    /\ processedMessageIds = << >>

\* C12: the step in which a connection opens leaves the dedup cache empty and
\* the handshake without a token, also when the connection dropped before had
\* announced one; and the handshake becomes ready only in a step of the open
\* connection that sets the token this connection announced
C12_FreshAfterReconnect ==
  [][ /\ (eventSource = "connecting" /\ eventSource' = "open") =>
           /\ processedMessageIds' = << >>
           /\ sessionId' = NoToken
           /\ ~sessionIdReceived'
      /\ (~sessionIdReceived /\ sessionIdReceived') =>
           /\ eventSource = "open"
           /\ eventSource' = "open"
           /\ conn' = conn
           /\ sessionId'.conn = conn
    ]_vars

\* a second connection is open and waits for its token; the first one had
\* announced a token (a POST used it) and had cached a fingerprint
C12_Witness ==
  /\ conn = 2
  /\ eventSource = "open"
  /\ sessionId = NoToken
  /\ ~sessionIdReceived
  /\ processedMessageIds = << >>
  /\ lastLog \in {"forwarded", "unmatched"}
  /\ \E i \in 1..Len(posts) : posts[i].token.conn = 1

\* C13: a step that drops, re-creates or opens the push connection leaves the
\* table of pending requests as it was; and a response that the open
\* connection delivers for the first time while its id is pending is written
\* to stdout, whatever the connections before had delivered
C13_PendingSurviveReconnect ==
  [][ /\ (eventSource' # eventSource /\ reqs' = reqs) =>
           pendingRequests' = pendingRequests
      /\ \A m \in Msgs :
           ( /\ OnMessage(m)
             /\ IsResponse(m)
             /\ m \notin seen
             /\ pendingRequests[m.id] # 0 ) =>
           stdoutLines' = Append(stdoutLines, ResponseLine(m))
    ]_vars

\* the same response was written once on the first connection and, its id
\* being pending again, once more on the second
C13_Witness ==
  \E m \in Msgs :
    /\ conn = 2
    /\ eventSource = "open"
    /\ Copies(stdoutLines, m, 1) = 1
    /\ Copies(stdoutLines, m, 2) = 1

\* C14: a request suspended in the wait for the session token leaves the wait,
\* by its POST or by the timeout, whatever the push connection does meanwhile
C14_NoDispatchWaitsForever ==
  \A r \in 1..MaxRequestsB : Waiting(r) ~> ~Waiting(r)

\* a request gave up the wait after the connection was dropped and re-created
\* several times and no token had come
C14_Witness ==
  \E r \in 1..Len(reqs) :
    /\ reqs[r].pc = "timedout"
    /\ conn >= 3
    /\ ~sessionIdReceived

\* C15: a request that is suspended when the endpoint announcement arrives
\* stays released with the token of that announcement until its own poll
\* POSTs it with this token
C15_WaitersReleasedTogether ==
  [][ \A r \in 1..Len(reqs) :
        (reqs[r].pc = "waiting" /\ sessionIdReceived) =>
          \/ /\ reqs'[r].pc = "waiting"
             /\ sessionIdReceived'
             /\ sessionId' = sessionId
          \/ /\ reqs'[r].pc = "posting"
             /\ Len(posts') = Len(posts) + 1
             /\ posts'[Len(posts')].req = r
             /\ posts'[Len(posts')].token = sessionId
    ]_vars

\* C16: while a request is suspended in the wait for the token, stdin lines
\* are still accepted and every message of the open push connection is still
\* handled; and a POST in flight can complete and end its sendRequest while
\* the reply to it is still awaited
C16_ReaderAndPushIndependent ==
  /\ (Running /\ \E r \in 1..Len(reqs) : reqs[r].pc = "waiting") =>
       /\ \A id \in Ids : ENABLED StdinLine(id, "other", TRUE)
       /\ eventSource = "open" => \A m \in Msgs : ENABLED OnMessage(m)
  /\ \A r \in 1..Len(reqs) :
       (Running /\ reqs[r].pc = "posting") => ENABLED PostDone(r, "ok")

\* request r, read first, is still suspended after request q, read later, was
\* POSTed, its sendRequest returned and the reply to it was forwarded
C16_Witness ==
  \E r, q \in 1..Len(reqs) :
    /\ r < q
    /\ reqs[r].pc = "waiting"
    /\ reqs[q].pc = "sent"
    /\ reqs[q].id # NoId
    /\ eventSource = "open"
    /\ lastLog = "forwarded"
    /\ LastOut(stdoutLines).kind = "response"
    /\ LastOut(stdoutLines).msg.id = reqs[q].id

\* C17: a request suspended in the wait whose poll finds the token announced,
\* be it the last poll before the timeout, is POSTed with this token; and the
\* first delivery of the response to a POSTed request whose id is pending is
\* written to stdout
C17_EarlyRequestNotLost ==
  [][ /\ \A r \in 1..Len(reqs) :
           (reqs[r].pc = "waiting" /\ sessionIdReceived /\ reqs'[r].pc # "waiting") =>
             /\ sessionId # NoToken
             /\ reqs'[r].pc = "posting"
             /\ posts' = Append(posts, Post(r))
      /\ \A m \in Msgs :
           ( /\ OnMessage(m)
             /\ IsResponse(m)
             /\ m \notin seen
             /\ \E r \in 1..Len(reqs) :
                  /\ pendingRequests[m.id] = r
                  /\ \E i \in 1..Len(posts) : posts[i].req = r ) =>
           /\ stdoutLines' = Append(stdoutLines, ResponseLine(m))
           /\ pendingRequests' = MapDelete(pendingRequests, m.id)
    ]_vars

\* the initialize request, read before the connection existed, was POSTed on
\* the open connection with the token this connection announced, and the reply
\* to it was written
C17_Witness ==
  \E r \in 1..Len(reqs) :
    /\ reqs[r].path = "init"
    /\ reqs[r].pc = "sent"
    /\ reqs[r].id # NoId
    /\ pendingRequests[reqs[r].id] = 0
    /\ \E i \in 1..Len(posts) :
         /\ posts[i].req = r
         /\ posts[i].es = "open"
         /\ posts[i].token.conn = conn
    /\ lastLog = "forwarded"
    /\ LastOut(stdoutLines).kind = "response"
    /\ LastOut(stdoutLines).msg.id = reqs[r].id
    /\ LastOut(stdoutLines).conn = conn

\* C18: the supervisor calls connectSSE at most six times, once and then for
\* five retries, when every connection it makes fails
C18_FinitelyManyAttempts ==
  conn <= MAX_RETRIES + 1

\* C19: whenever the connection is open and has announced its token the retry
\* counter is 0 and no delay is on record, and a drop of this connection
\* schedules the first retry of a fresh budget, after the base delay
C19_StreamingResetsCounter ==
  [][ /\ (eventSource' = "open" /\ sessionIdReceived') =>
           (retryCount' = 0 /\ delays' = << >>)
      /\ (eventSource = "open" /\ sessionIdReceived /\ eventSource' = "null") =>
           /\ retryCount' = 1
           /\ delays' = <<RETRY_DELAY_MS>>
           /\ timers' = timers + 1
           /\ shouldReconnect'
    ]_vars

\* two attempts failed, the third connection opened and announced its token,
\* and its drop scheduled retry 1 after the base delay
C19_Witness ==
  /\ conn = 3
  /\ sessionIdReceived
  /\ sessionId.conn = 3
  /\ eventSource = "null"
  /\ retryCount = 1
  /\ delays = <<RETRY_DELAY_MS>>
  /\ timers = 1

\* C20: once the handshake is ready the token keeps its value until a reset
\* unsets it; a further endpoint announcement does not replace it
C20_TokenSetOnce ==
  [][ (sessionIdReceived /\ sessionId' # sessionId) =>
        (sessionId' = NoToken /\ ~sessionIdReceived')
    ]_vars

\* C21: no request read from stdin is ever POSTed twice
C21_AtMostOnePost ==
  \A i, j \in 1..Len(posts) : posts[i].req = posts[j].req => i = j

\* the only POST of a request failed, and the connection was dropped and
\* re-created afterwards
C21_Witness ==
  \E r \in 1..Len(reqs) :
    /\ reqs[r].pc = "failed"
    /\ conn = 2
    /\ eventSource = "open"
    /\ \E i \in 1..Len(posts) : posts[i].req = r /\ posts[i].attempt = 1

\* C22: a step in which the push connection fails (it errors or closes, or
\* connectSSE throws) writes nothing to stdout and ends no process; it leaves
\* no connection and, while retries remain, schedules the next attempt after
\* the next delay of the backoff
C22_PushFailureNotSurfaced ==
  [][ ((Live \/ conn' = conn + 1) /\ ~Live') =>
        /\ stdoutLines' = stdoutLines
        /\ exitCode' = exitCode
        /\ eventSource' \in {"null", "closed"}
        /\ (shouldReconnect /\ retryCount < MAX_RETRIES) =>
              /\ retryCount' = retryCount + 1
              /\ delays' = Append(delays, Delay(retryCount + 1))
              /\ timers' >= 1
    ]_vars

\* the connection dropped while the POSTed request 1 awaits its reply: nothing
\* was written and a retry is scheduled
C22_Witness ==
  /\ eventSource = "null"
  /\ timers = 1
  /\ retryCount = 1
  /\ stdoutLines = << >>
  /\ \E r \in 1..Len(reqs) :
       /\ reqs[r].pc = "sent"
       /\ reqs[r].id # NoId
       /\ pendingRequests[reqs[r].id] = r

\* C23: once stdin has ended the process has exited with status 0, with no
\* push connection left and no reconnect scheduled
C23_GracefulShutdown ==
  stdinEnded => (exitCode = "0" /\ ~Live /\ timers = 0)

\* C24: the round of the loop that handles an initialize request while the
\* configuration is missing writes the error response for it and exits with
\* status 1, and no connection was created and no POST issued
C24_ConfigFailureReported ==
  [][ ( /\ lines # << >>
        /\ lines' = Tail(lines)
        /\ ~isInitialized
        /\ JSONParse(Head(lines)).method = "initialize"
        /\ JSONParse(Head(lines)).params # "config" ) =>
      ( /\ stdoutLines' = Append(stdoutLines, ErrorLine(JSONParse(Head(lines)).id))
        /\ exitCode' = "1"
        /\ conn' = 0
        /\ posts' = << >> )
    ]_vars

C27_NotificationsSilent ==
  [][ (Len(reqs') = Len(reqs) + 1 /\ reqs'[Len(reqs')].id = NoId) =>
        (pendingRequests' = pendingRequests /\ stdoutLines' = stdoutLines)
    ]_vars

\* C25: the cache never holds more than 1000 fingerprints nor one twice; a
\* response not in the cache is put at its newest end, and this drops the
\* oldest fingerprint when, and only when, the cache was full; any other
\* message leaves the cache as it is
C25_CacheBound ==
  [][ \A m \in MsgsCache :
        OnMessage(m) =>
          LET old == processedMessageIds
              new == processedMessageIds'
              d   == IF Len(old) < CACHE_LIMIT THEN 0 ELSE Len(old) + 1 - CACHE_LIMIT
          IN  /\ Len(new) <= CACHE_LIMIT
              /\ Cardinality({ new[i] : i \in 1..Len(new) }) = Len(new)
              /\ IF IsResponse(m) /\ \A i \in 1..Len(old) : old[i] # MessageKey(m)
                   THEN new = SubSeq(old, d + 1, Len(old)) \o <<MessageKey(m)>>
                   ELSE new = old
    ]_vars

\* the cache is full, its two oldest fingerprints were dropped for two new ones
C25_Witness ==
  /\ Len(processedMessageIds) = CACHE_LIMIT
  /\ processedMessageIds[1] = MessageKey(Filler(3))
  /\ processedMessageIds[CACHE_LIMIT - 1] = MessageKey(Filler(CACHE_LIMIT + 1))
  /\ processedMessageIds[CACHE_LIMIT] = MessageKey(Filler(CACHE_LIMIT + 2))

\* the texts written so far that are not white space only
NonBlank(texts) == SelectSeq(texts, LAMBDA t : Trim(t) # << >>)

\* C28: the values decoded so far are the values written, in the order
\* written, none missing, repeated or changed; and once the pipe is read to
\* its end every value written has been decoded and the buffer is empty
C28_FramingRoundTrip ==
  LET written == NonBlank(sent) IN
    /\ Len(decoded) <= Len(written)
    /\ \A i \in 1..Len(decoded) :
         \A v \in Values : written[i] = Stringify(v) => decoded[i] = v
    /\ (Running /\ wire = << >> /\ lines = << >>) =>
         (Len(decoded) = Len(written) /\ buffer = << >>)

\* the first value was decoded; the chunk read last ended inside the second,
\* whose first half waits in the buffer
C28_Witness ==
  /\ sent = <<Stringify(JValue(1, "initialize", "config")),
              Stringify(JValue(2, "other", Absent))>>
  /\ decoded = <<JValue(1, "initialize", "config")>>
  /\ lines = << >>
  /\ buffer = <<"{", "2">>
  /\ wire = <<"o", "}", NL>>

\* C29: the round of the loop for a line that does not parse runs the catch
\* and nothing else: no line on stdout, no request, table entry or POST, no
\* exit; the rest of the chunk and the buffer stay as they are; and every line
\* decoded was either caught or handled as a request
C29_MalformedLineIsLocal ==
  [][ /\ (decoded' = Append(decoded, Malformed)) =>
           /\ caught' = caught + 1
           /\ lines' = Tail(lines)
           /\ buffer' = buffer
           /\ stdoutLines' = stdoutLines
           /\ reqs' = reqs
           /\ pendingRequests' = pendingRequests
           /\ posts' = posts
           /\ conn' = conn
           /\ exitCode' = "running"
      /\ Len(reqs') + caught' = Len(decoded')
    ]_vars

\* a line cut short was discarded and the initialize request after it was
\* handled: the connector was started
C29_Witness ==
  /\ decoded = <<Malformed, JValue(1, "initialize", "config")>>
  /\ caught = 1
  /\ isInitialized
  /\ Len(reqs) = 1
  /\ reqs[1].path = "init"
  /\ conn = 1
  /\ stdoutLines = << >>

\* C30: a step in which a line fails to parse, a POST fails or a wait for the
\* token times out leaves the process running; after such failures stdin data,
\* the lines of the chunk and pushed messages are still handled; the connector
\* ends the process in the step in which it gives up reconnecting, and the
\* process exits in no other step but the handling of a configuration failure
\* or of a stdin error
C30_RecoverableFailuresNotFatal ==
  [][ /\ ( \/ caught' = caught + 1
           \/ \E r \in 1..Len(reqs) :
                /\ reqs[r].pc \in {"waiting", "posting"}
                /\ reqs'[r].pc \in {"timedout", "failed"} ) =>
           exitCode' = "running"
      /\ ( /\ Running
           /\ \/ caught > 0
              \/ \E r \in 1..Len(reqs) : reqs[r].pc \in {"timedout", "failed"} ) =>
           /\ (lines = << >> /\ wire # << >>) => ENABLED StdinData(1)
           /\ lines # << >> => ENABLED LineStep
           /\ eventSource = "open" => \A m \in Msgs : ENABLED OnMessage(m)
      /\ (shouldReconnect /\ ~shouldReconnect') => exitCode' # "running"
      /\ exitCode' # exitCode =>
           \/ shouldReconnect /\ ~shouldReconnect'
           \/ StdinError
           \/ /\ ~isInitialized
              /\ exitCode' = "1"
              /\ Len(stdoutLines') = Len(stdoutLines) + 1
    ]_vars

\* C31: the step in which the dispatch of a request fails, by its POST or by
\* the timeout of its wait, leaves the table entry of every other request, the
\* push connection, the session token and the retry counter as they were
C31_FailureIsolated ==
  [][ \A r \in 1..Len(reqs) :
        (reqs[r].pc \in {"waiting", "posting"} /\ reqs'[r].pc \in {"failed", "timedout"}) =>
          /\ \A i \in Ids :
               (pendingRequests[i] # 0 /\ pendingRequests[i] # r) =>
                  pendingRequests'[i] = pendingRequests[i]
          /\ UNCHANGED <<connVars, sessVars>>
    ]_vars

\* s without its last Len(t) characters
Strip(s, t) == SubSeq(s, 1, Len(s) - Len(t))

C33_PushStepAtomic ==
  [][ /\ nPush' # nPush =>
           /\ nPush' = nPush + 1
           /\ reqs' = reqs
           /\ posts' = posts
           /\ \A i \in Ids :
                pendingRequests'[i] # pendingRequests[i] =>
                  /\ pendingRequests'[i] = 0
                  /\ Forwards(stdoutLines')
                  /\ LastOut(stdoutLines').msg.id = i
      /\ Forwards(stdoutLines') =>
           LET m == LastOut(stdoutLines').msg IN
             /\ nPush' = nPush + 1
             /\ ~InCache(MessageKey(m))
             /\ processedMessageIds' = CacheAdd(processedMessageIds, MessageKey(m))
             /\ pendingRequests[m.id] # 0
             /\ pendingRequests'[m.id] = 0
      /\ (Len(processedMessageIds') > Len(processedMessageIds)) =>
           LET k == processedMessageIds'[Len(processedMessageIds')] IN
             /\ nPush' = nPush + 1
             /\ ~InCache(k)
             /\ IF pendingRequests[k[1]] # 0
                  THEN /\ stdoutLines' = Append(stdoutLines, ResponseLine(k[2]))
                       /\ pendingRequests' = MapDelete(pendingRequests, k[1])
                  ELSE UNCHANGED <<stdoutLines, pendingRequests>>
      /\ \A m \in Msgs :
           (OnMessage(m) /\ m \in seen) =>
              UNCHANGED <<processedMessageIds, stdoutLines, pendingRequests>>
    ]_vars

\* two responses with the id of the one pending request came one after the
\* other while its POST was still in flight: the first was written, the second
\* found no entry
C33_Witness ==
  /\ Len(reqs) = 1
  /\ reqs[1].pc = "posting"
  /\ Len(processedMessageIds) = 2
  /\ processedMessageIds[1][1] = reqs[1].id
  /\ processedMessageIds[2][1] = reqs[1].id
  /\ Len(stdoutLines) = 1
  /\ stdoutLines[1] = ResponseLine(processedMessageIds[1][2])
  /\ lastLog = "unmatched"
  /\ pendingRequests[reqs[1].id] = 0

WellFormed(m) == IsResponse(m) /\ ((m.result # Absent) # (m.error # Absent))

\* C36: the delivery of a well-formed response whose id is pending writes it
\* to stdout and removes the entry, whatever the connection delivered before
C36_PendingResponseForwarded ==
  [][ \A m \in Msgs :
        (OnMessage(m) /\ WellFormed(m) /\ pendingRequests[m.id] # 0) =>
           /\ stdoutLines' = Append(stdoutLines, ResponseLine(m))
           /\ pendingRequests'[m.id] = 0
    ]_vars

\* C37: for every response on stdout a tracked request with its id has been
\* POSTed before the response was written
C37_ForwardOnlyAfterPost ==
  \A k \in 1..Len(stdoutLines) :
    stdoutLines[k].kind = "response" =>
      \E i \in 1..Len(posts) :
        /\ Tracked(posts[i].req)
        /\ reqs[posts[i].req].id = stdoutLines[k].msg.id

\* C38: for every id, stdout holds no more responses with this id than
\* tracked requests with this id have been read
C38_ForwardsWithinDispatches ==
  \A id \in Ids :
    Cardinality({ k \in 1..Len(stdoutLines) :
                    stdoutLines[k].kind = "response" /\ stdoutLines[k].msg.id = id })
      <= Cardinality({ r \in 1..Len(reqs) : Tracked(r) /\ reqs[r].id = id })

\* the response forwarded on the first connection was replayed on the second,
\* whose cache was empty, and was not written again
C38_Witness ==
  \E m \in Msgs :
    /\ conn = 2
    /\ eventSource = "open"
    /\ processedMessageIds = <<MessageKey(m)>>
    /\ lastLog = "unmatched"
    /\ stdoutLines = <<[kind |-> "response", msg |-> m, conn |-> 1]>>

\* C39: at most one reconnect timer is pending, and none while an EventSource
\* is connecting or open; the connector holds one EventSource at most, the
\* one of its last connectSSE call
C39_OneConnectionOneTimer ==
  /\ timers \in {0, 1}
  /\ Live => timers = 0
  /\ Live => conn >= 1
  /\ conn = 0 => (eventSource = "null" /\ timers = 0)

\* two attempts failed and each scheduled one timer; the second timer fired
\* and the third attempt is under way with no timer left
C39_Witness ==
  /\ conn = 3
  /\ eventSource = "connecting"
  /\ retryCount = 2
  /\ delays = <<RETRY_DELAY_MS, 2 * RETRY_DELAY_MS>>
  /\ timers = 0

\* C40: a request other than initialize that is read before the connector
\* exists gets one error response with code -32002 and nothing else: no table
\* entry, no POST, no connection; once the connector exists every request,
\* initialize too, is tracked and dispatched on it and no connection is made
\* for it; connectSSE is first called by the initialize request that creates
\* the connector, and only one request ever creates it
C40_InitializationGate ==
  /\ [](Cardinality({ r \in 1..Len(reqs) : reqs[r].path = "init" }) <= 1)
  /\ []((conn > 0 \/ Live \/ posts # << >>) => isInitialized)
  /\ [][ \A v \in Parsable :
           (decoded' = Append(decoded, v) /\ v # JNull) =>
             /\ (~isInitialized /\ v.method # "initialize") =>
                   /\ stdoutLines' = Append(stdoutLines, ErrorLine(v.id))
                   /\ LastOut(stdoutLines').code = -32002
                   /\ reqs' = Append(reqs, Request(v.id, "reject", "rejected"))
                   /\ ~isInitialized'
                   /\ UNCHANGED <<pendingRequests, posts, connVars, exitCode>>
             /\ isInitialized =>
                   /\ reqs' = Append(reqs, Request(v.id, "forward", SendRequestPc))
                   /\ pendingRequests' = MapSet(pendingRequests, v.id, Len(reqs) + 1)
                   /\ posts' = IF sessionIdReceived
                                 THEN Append(posts, Post(Len(reqs) + 1)) ELSE posts
                   /\ isInitialized'
                   /\ UNCHANGED <<stdoutLines, connVars, exitCode>>
             /\ (conn = 0 /\ conn' # 0) =>
                   (~isInitialized /\ isInitialized' /\ v.method = "initialize")
       ]_vars

\* a request read before initialize was answered with the error, and the
\* initialize request after it created the connector and its connection
C40_Witness ==
  /\ decoded = <<JValue(2, "other", Absent), JValue(1, "initialize", "config")>>
  /\ stdoutLines = <<ErrorLine(2)>>
  /\ Len(reqs) = 2
  /\ reqs[1].path = "reject"
  /\ reqs[2].path = "init"
  /\ pendingRequests = [i \in Ids |-> IF i = 1 THEN 2 ELSE 0]
  /\ conn = 1
  /\ eventSource = "open"

====
